---- MODULE Spec2Model ----
(***************************************************************************)
(* HURDAT2 analysis: the text parser (repositories.py), the entities it    *)
(* builds (entities.py) and the landfall detector and report records       *)
(* (services.py), as one state machine.                                    *)
(*                                                                         *)
(* Text is a sequence of one-character strings, so that split, strip, the  *)
(* header regex, int(), float() and datetime.fromisoformat() are computed  *)
(* on the characters of a line.  Degrees are kept in tenths of a degree    *)
(* (25.3 is 253), the precision of the HURDAT2 coordinate fields.          *)
(***************************************************************************)
EXTENDS Integers, Sequences, FiniteSets, TLC

VARIABLES
    lines,        \* _parse_tracks: the list of lines it was called with
    i,            \* _parse_tracks: how many lines the for loop has finished
    tracks,       \* _parse_tracks: the local list `tracks`
    track,        \* _parse_tracks: index in `tracks` of the local `track`, 0 while unbound
    result,       \* the list _parse_tracks returned
    pc,           \* where the program is
    error,        \* the exception that ended the program, NoError otherwise
    area,         \* the geometry: the set of shapely points it contains
    self_tracks,  \* StormDataService.tracks
    t,            \* record_landfall_events: how many tracks the for loop has started
    k,            \* get_landfall_dates: how many entries the for loop has finished
    in_area,      \* get_landfall_dates: the local flag
    entries,      \* get_landfall_dates: the local list `entries`
    landfalls,    \* record_landfall_events: the local `landfalls`
    records,      \* record_landfall_events: the local list `records`
    contains_calls, \* get_landfall_dates: the places of the entries area.contains was called for
    report_date,  \* ReportService.report_date, as str() gives it
    report,       \* ReportService.report
    target,       \* the target directory ReportService.save is called with
    file_system,  \* the files and directories on disk
    return_code,  \* what ReportService.save returned, 0 before it has
    legacy_track_entries, \* TextSource._parse_tracks: the local list `track_entries`
    legacy_header, \* TextSource._parse_tracks: the local `header` of the track in hand
    iterations    \* TextSource._parse_tracks: how often the outer loop's body was entered

vars == << lines, i, tracks, track, result, pc, error, area, self_tracks,
           t, k, in_area, entries, landfalls, records, contains_calls,
           report_date, report, target, file_system, return_code,
           legacy_track_entries, legacy_header, iterations >>

parser_vars == << lines, i, tracks, track, result >>

service_vars == << self_tracks, t, k, in_area, entries, landfalls, records,
                   contains_calls >>

report_vars == << report_date, report, target, file_system, return_code >>

legacy_vars == << legacy_track_entries, legacy_header, iterations >>

----------------------------------------------------------------------------
(* Bounds of the model.                                                    *)

\* The longest list of lines handed to _parse_tracks.
MaxLines == 3

\* The size of StormDataService.tracks when it is drawn directly: the number
\* of tracks plus the number of their entries.
MaxSize == 5

\* The longest list of storms handed to ReportService.generate when it is
\* drawn directly.
MaxStorms == 2

\* How many iterations of the legacy parser's outer loop that leave the
\* index as it is are followed.
MaxIterations == 3

----------------------------------------------------------------------------
(* Program constants (constants.py).                                       *)

HEADER_ID_COL == 0
HEADER_NAME_COL == 1
HEADER_COUNT_COL == 2
DATA_DATE_COL == 0
DATA_TIME_COL == 1
DATA_RECORD_ID_COL == 2
DATA_SYSTEM_STATUS_COL == 3
DATA_LAT_COL == 4
DATA_LON_COL == 5
DATA_MAX_WIND_COL == 6

\* The limits of the LatLongPoint setters, in tenths of a degree.
LAT_LIMIT == 900
LON_LIMIT == 1800

----------------------------------------------------------------------------
(* Python text primitives.                                                 *)

Digits == {"0", "1", "2", "3", "4", "5", "6", "7", "8", "9"}

Upper == {"A", "B", "C", "D", "E", "F", "G", "H", "I", "J", "K", "L", "M",
          "N", "O", "P", "Q", "R", "S", "T", "U", "V", "W", "X", "Y", "Z"}

Whitespace == {" ", "\n", "\t", "\r"}

DigitVal(c) ==
    CASE c = "0" -> 0 [] c = "1" -> 1 [] c = "2" -> 2 [] c = "3" -> 3
      [] c = "4" -> 4 [] c = "5" -> 5 [] c = "6" -> 6 [] c = "7" -> 7
      [] c = "8" -> 8 [] c = "9" -> 9

AllDigits(s) == \A n \in 1..Len(s) : s[n] \in Digits

\* The value of a string of decimal digits.
RECURSIVE DecimalVal(_)
DecimalVal(s) ==
    IF s = << >> THEN 0
    ELSE 10 * DecimalVal(SubSeq(s, 1, Len(s) - 1)) + DigitVal(s[Len(s)])

\* A list index as Python writes it (from 0).
At(list, col) == list[col + 1]

HasCol(list, col) == col + 1 <= Len(list)

\* str.split(sep): the pieces between the separators, an empty piece included.
RECURSIVE split(_, _)
split(s, sep) ==
    IF \E n \in 1..Len(s) : s[n] = sep
    THEN LET first == CHOOSE n \in 1..Len(s) :
                          s[n] = sep /\ \A m \in 1..(n - 1) : s[m] # sep
         IN  << SubSeq(s, 1, first - 1) >> \o split(SubSeq(s, first + 1, Len(s)), sep)
    ELSE << s >>

\* str.strip(): without its leading and trailing whitespace.
strip(s) ==
    LET inner == {n \in 1..Len(s) : s[n] \notin Whitespace}
    IN  IF inner = {} THEN << >>
        ELSE LET first == CHOOSE n \in inner : \A m \in inner : n <= m
                 last  == CHOOSE n \in inner : \A m \in inner : m <= n
             IN  SubSeq(s, first, last)

\* An exception: its class, its message, and the text the message quotes.
NoError == [type |-> "", message |-> "", quoted |-> << >>]

Exception(type, message, quoted) ==
    [type |-> type, message |-> message, quoted |-> quoted]

\* int(s): an optional sign and decimal digits, whitespace around them ignored.
IntOk(s) ==
    LET x == strip(s)
        d == IF x # << >> /\ x[1] \in {"+", "-"} THEN Tail(x) ELSE x
    IN  d # << >> /\ AllDigits(d)

IntVal(s) ==
    LET x == strip(s)
    IN  IF x[1] = "-" THEN 0 - DecimalVal(Tail(x))
        ELSE IF x[1] = "+" THEN DecimalVal(Tail(x))
        ELSE DecimalVal(x)

\* float(s) of a coordinate magnitude, in tenths: digits, then optionally a
\* point and at most one digit ("25.3", "25.", "25").
FloatOk(s) ==
    LET parts == split(s, ".")
    IN  /\ Len(parts) \in {1, 2}
        /\ parts[1] # << >>
        /\ AllDigits(parts[1])
        /\ Len(parts) = 2 => AllDigits(parts[2]) /\ Len(parts[2]) <= 1

FloatTenths(s) ==
    LET parts == split(s, ".")
    IN  10 * DecimalVal(parts[1])
          + (IF Len(parts) = 2 THEN DecimalVal(parts[2]) ELSE 0)

abs(x) == IF x < 0 THEN 0 - x ELSE x

----------------------------------------------------------------------------
(* datetime.fromisoformat (Python 3.11) on the compact form the parser     *)
(* builds, YYYYMMDD "T" HHMM "Z".  Every date field of LineSet has eight   *)
(* characters and every time field has four, so no other ISO 8601 shape    *)
(* is ever handed to it; any other shape is reported as invalid here.      *)

IsLeap(year) == year % 4 = 0 /\ (year % 100 # 0 \/ year % 400 = 0)

DaysInMonth(year, month) ==
    IF month = 2 THEN (IF IsLeap(year) THEN 29 ELSE 28)
    ELSE IF month \in {4, 6, 9, 11} THEN 30 ELSE 31

fromisoformat(s) ==
    IF ~ ( /\ Len(s) = 14
           /\ AllDigits(SubSeq(s, 1, 8))
           /\ s[9] = "T"
           /\ AllDigits(SubSeq(s, 10, 13))
           /\ s[14] = "Z" )
    THEN [ok |-> FALSE, error |-> Exception("ValueError", "Invalid isoformat string", << s >>)]
    ELSE LET year   == DecimalVal(SubSeq(s, 1, 4))
             month  == DecimalVal(SubSeq(s, 5, 6))
             day    == DecimalVal(SubSeq(s, 7, 8))
             hour   == DecimalVal(SubSeq(s, 10, 11))
             minute == DecimalVal(SubSeq(s, 12, 13))
         IN  IF year < 1
             THEN [ok |-> FALSE, error |-> Exception("ValueError", "year is out of range", << >>)]
             ELSE IF month \notin 1..12
             THEN [ok |-> FALSE, error |-> Exception("ValueError", "month must be in 1..12", << >>)]
             ELSE IF day \notin 1..DaysInMonth(year, month)
             THEN [ok |-> FALSE, error |-> Exception("ValueError", "day is out of range for month", << >>)]
             ELSE IF hour \notin 0..23
             THEN [ok |-> FALSE, error |-> Exception("ValueError", "hour must be in 0..23", << >>)]
             ELSE IF minute \notin 0..59
             THEN [ok |-> FALSE, error |-> Exception("ValueError", "minute must be in 0..59", << >>)]
             ELSE [ok |-> TRUE,
                   value |-> [year |-> year, month |-> month, day |-> day,
                              hour |-> hour, minute |-> minute]]

\* Two decimal digits, and four, as isoformat() writes them.
DigitChar(d) ==
    CASE d = 0 -> "0" [] d = 1 -> "1" [] d = 2 -> "2" [] d = 3 -> "3"
      [] d = 4 -> "4" [] d = 5 -> "5" [] d = 6 -> "6" [] d = 7 -> "7"
      [] d = 8 -> "8" [] d = 9 -> "9"

TwoDigits(n) == << DigitChar((n \div 10) % 10), DigitChar(n % 10) >>

FourDigits(n) == TwoDigits(n \div 100) \o TwoDigits(n % 100)

\* datetime.isoformat() of a UTC datetime with no seconds:
\* YYYY-MM-DDTHH:MM:00+00:00.
isoformat(dt) ==
    FourDigits(dt.year) \o << "-" >> \o TwoDigits(dt.month) \o << "-" >>
      \o TwoDigits(dt.day) \o << "T" >> \o TwoDigits(dt.hour) \o << ":" >>
      \o TwoDigits(dt.minute)
      \o << ":", "0", "0", "+", "0", "0", ":", "0", "0" >>

----------------------------------------------------------------------------
(* entities.py.                                                            *)

\* LatLongPoint.__init__ and its two property setters: a setter that
\* rejects its value returns False, which the assignment discards, and
\* leaves the attribute unset.  The object is the record of the attributes
\* that were set.
LatLongPoint(latitude, longitude) ==
    LET lat_set == ~ (abs(latitude) > LAT_LIMIT)
        lon_set == ~ (abs(longitude) >= LON_LIMIT)
    IN  CASE lat_set /\ lon_set     -> [_latitude |-> latitude, _longitude |-> longitude]
          [] lat_set /\ ~ lon_set   -> [_latitude |-> latitude]
          [] ~ lat_set /\ lon_set   -> [_longitude |-> longitude]
          [] ~ lat_set /\ ~ lon_set -> [n \in {} |-> 0]

\* A faulty variant, for comparison: the point is built latitude first.
to_point_latitude_first(location) ==
    IF "_longitude" \notin DOMAIN location
    THEN [ok |-> FALSE, error |-> Exception("AttributeError", "_longitude", << >>)]
    ELSE IF "_latitude" \notin DOMAIN location
    THEN [ok |-> FALSE, error |-> Exception("AttributeError", "_latitude", << >>)]
    ELSE [ok |-> TRUE, value |-> << location._latitude, location._longitude >>]

\* LatLongPoint.to_point: Point(self.longitude, self.latitude); each
\* property getter raises AttributeError when its attribute is unset.
to_point(location) ==
    IF "_longitude" \notin DOMAIN location
    THEN [ok |-> FALSE, error |-> Exception("AttributeError", "_longitude", << >>)]
    ELSE IF "_latitude" \notin DOMAIN location
    THEN [ok |-> FALSE, error |-> Exception("AttributeError", "_latitude", << >>)]
    ELSE [ok |-> TRUE, value |-> << location._longitude, location._latitude >>]

TrackEntry(location, datetime, record_identifier, system_status, max_windspeed) ==
    [location |-> location, datetime |-> datetime,
     record_identifier |-> record_identifier, system_status |-> system_status,
     max_windspeed |-> max_windspeed]

\* The Track dataclass: track_entries defaults to a new empty list and
\* max_windspeed to 0; name is given by every caller.
Track(basin, year, cyclone_no, name, no_track_entries) ==
    [basin |-> basin, year |-> year, cyclone_no |-> cyclone_no,
     no_track_entries |-> no_track_entries, track_entries |-> << >>,
     max_windspeed |-> 0, name |-> name]

\* A faulty variant, for comparison: a track with fewer entries than declared validates too.
validate_entries_at_most(self) == Len(self.track_entries) <= self.no_track_entries

\* Track.validate_entries.
validate_entries(self) == Len(self.track_entries) = self.no_track_entries

----------------------------------------------------------------------------
(* repositories.py: StormTextRepository.                                   *)

\* re.match(HEADER_REGEX, line): two capitals, two digits, four digits at
\* the start of the line.
_is_header(line) ==
    /\ Len(line) >= 8
    /\ line[1] \in Upper /\ line[2] \in Upper
    /\ AllDigits(SubSeq(line, 3, 8))

\* line.split(',') with every part stripped.
Fields(line) ==
    LET parts == split(line, ",")
    IN  [n \in 1..Len(parts) |-> strip(parts[n])]

_parse_header(line) ==
    LET header == Fields(line)
        id     == At(header, HEADER_ID_COL)
    IN  IF ~ HasCol(header, HEADER_NAME_COL) \/ ~ HasCol(header, HEADER_COUNT_COL)
        THEN [ok |-> FALSE, error |-> Exception("IndexError", "list index out of range", << >>)]
        ELSE IF ~ IntOk(At(header, HEADER_COUNT_COL))
        THEN [ok |-> FALSE,
              error |-> Exception("ValueError", "invalid literal for int() with base 10",
                                 << At(header, HEADER_COUNT_COL) >>)]
        ELSE [ok |-> TRUE,
              value |-> Track(SubSeq(id, 1, 2),
                              DecimalVal(SubSeq(id, 5, 8)),
                              DecimalVal(SubSeq(id, 3, 4)),
                              At(header, HEADER_NAME_COL),
                              IntVal(At(header, HEADER_COUNT_COL)))]

\* The S/W sign rule of the legacy parser (data_models.py), whose
\* -1 ** (letter == 'S') is -(1 ** ...), that is -1 for every letter.
signed_degrees_legacy(field, negative) ==
    FloatTenths(SubSeq(field, 1, Len(field) - 1)) * (0 - 1)

\* float(field[:-1]) * (-1 if field[-1] == negative else 1)
signed_degrees(field, negative) ==
    FloatTenths(SubSeq(field, 1, Len(field) - 1))
      * (IF field[Len(field)] = negative THEN 0 - 1 ELSE 1)

_parse_track_entry(line) ==
    LET data_line == Fields(line)
        index_error == [ok |-> FALSE,
                        error |-> Exception("IndexError", "list index out of range", << >>)]
        float_error(field) ==
            [ok |-> FALSE,
             error |-> Exception("ValueError", "could not convert string to float",
                                 << SubSeq(field, 1, Len(field) - 1) >>)]
    IN  IF ~ HasCol(data_line, DATA_TIME_COL) THEN index_error
        ELSE
        LET track_datetime == fromisoformat(At(data_line, DATA_DATE_COL) \o << "T" >>
                                              \o At(data_line, DATA_TIME_COL) \o << "Z" >>)
        IN  IF ~ track_datetime.ok THEN track_datetime
            ELSE IF ~ HasCol(data_line, DATA_LAT_COL) THEN index_error
            ELSE
            LET lat_field == At(data_line, DATA_LAT_COL)
            IN  IF ~ FloatOk(SubSeq(lat_field, 1, Len(lat_field) - 1))
                THEN float_error(lat_field)
                ELSE IF ~ HasCol(data_line, DATA_LON_COL) THEN index_error
                ELSE
                LET lon_field == At(data_line, DATA_LON_COL)
                IN  IF ~ FloatOk(SubSeq(lon_field, 1, Len(lon_field) - 1))
                    THEN float_error(lon_field)
                    ELSE IF ~ HasCol(data_line, DATA_MAX_WIND_COL) THEN index_error
                    ELSE IF ~ IntOk(At(data_line, DATA_MAX_WIND_COL))
                    THEN [ok |-> FALSE,
                          error |-> Exception("ValueError",
                                        "invalid literal for int() with base 10",
                                        << At(data_line, DATA_MAX_WIND_COL) >>)]
                    ELSE [ok |-> TRUE,
                          value |-> TrackEntry(
                              LatLongPoint(signed_degrees(lat_field, "S"),
                                           signed_degrees(lon_field, "W")),
                              track_datetime.value,
                              At(data_line, DATA_RECORD_ID_COL),
                              At(data_line, DATA_SYSTEM_STATUS_COL),
                              IntVal(At(data_line, DATA_MAX_WIND_COL)))]

----------------------------------------------------------------------------
(* The lines _parse_tracks is given: each as readlines() returns it, with  *)
(* its line terminator.                                                    *)

\* AL252005, WILMA, 100,\n
HEADER_WILMA_100 ==
    << "A", "L", "2", "5", "2", "0", "0", "5", ",", " ", "W", "I", "L", "M",
       "A", ",", " ", "1", "0", "0", ",", "\n" >>

\* AL252005, WILMA, 1,\n
HEADER_WILMA_1 ==
    << "A", "L", "2", "5", "2", "0", "0", "5", ",", " ", "W", "I", "L", "M",
       "A", ",", " ", "1", ",", "\n" >>

\* AL011851,      , 2,\n
HEADER_BLANK_2 ==
    << "A", "L", "0", "1", "1", "8", "5", "1", ",", " ", " ", " ", " ", " ",
       " ", ",", " ", "2", ",", "\n" >>

\* 20051024, 1030, L, HU, 25.3N, 80.7W, 105\n
DATA_WILMA ==
    << "2", "0", "0", "5", "1", "0", "2", "4", ",", " ", "1", "0", "3", "0",
       ",", " ", "L", ",", " ", "H", "U", ",", " ", "2", "5", ".", "3", "N",
       ",", " ", "8", "0", ".", "7", "W", ",", " ", "1", "0", "5", "\n" >>

\* 18510625, 0000,  , HU, 28.0N, 94.8W, 80\n
DATA_1851 ==
    << "1", "8", "5", "1", "0", "6", "2", "5", ",", " ", "0", "0", "0", "0",
       ",", " ", " ", ",", " ", "H", "U", ",", " ", "2", "8", ".", "0", "N",
       ",", " ", "9", "4", ".", "8", "W", ",", " ", "8", "0", "\n" >>

\* 18510625, 0600,  , TS, 28.0S, 94.8E, 80\n
DATA_SOUTH_EAST ==
    << "1", "8", "5", "1", "0", "6", "2", "5", ",", " ", "0", "6", "0", "0",
       ",", " ", " ", ",", " ", "T", "S", ",", " ", "2", "8", ".", "0", "S",
       ",", " ", "9", "4", ".", "8", "E", ",", " ", "8", "0", "\n" >>

\* 20051024, 1030, L, HU, 25.3N, 80.7W, 1O5\n
DATA_BAD_WIND ==
    << "2", "0", "0", "5", "1", "0", "2", "4", ",", " ", "1", "0", "3", "0",
       ",", " ", "L", ",", " ", "H", "U", ",", " ", "2", "5", ".", "3", "N",
       ",", " ", "8", "0", ".", "7", "W", ",", " ", "1", "O", "5", "\n" >>

\* 20051332, 1030, L, HU, 25.3N, 80.7W, 105\n
DATA_BAD_DATE ==
    << "2", "0", "0", "5", "1", "3", "3", "2", ",", " ", "1", "0", "3", "0",
       ",", " ", "L", ",", " ", "H", "U", ",", " ", "2", "5", ".", "3", "N",
       ",", " ", "8", "0", ".", "7", "W", ",", " ", "1", "0", "5", "\n" >>

\* 20051024, 2460, L, HU, 25.3N, 80.7W, 105\n
DATA_BAD_TIME ==
    << "2", "0", "0", "5", "1", "0", "2", "4", ",", " ", "2", "4", "6", "0",
       ",", " ", "L", ",", " ", "H", "U", ",", " ", "2", "5", ".", "3", "N",
       ",", " ", "8", "0", ".", "7", "W", ",", " ", "1", "0", "5", "\n" >>

\* 20051024, 1030, L, HU, 90.0N, 180.0W, 105\n
DATA_LAT_90_LON_180 ==
    << "2", "0", "0", "5", "1", "0", "2", "4", ",", " ", "1", "0", "3", "0",
       ",", " ", "L", ",", " ", "H", "U", ",", " ", "9", "0", ".", "0", "N",
       ",", " ", "1", "8", "0", ".", "0", "W", ",", " ", "1", "0", "5", "\n" >>

\* 20051024, 1030, L, TS, 90.1S, 179.9E, 105\n
DATA_LAT_901_LON_1799 ==
    << "2", "0", "0", "5", "1", "0", "2", "4", ",", " ", "1", "0", "3", "0",
       ",", " ", "L", ",", " ", "T", "S", ",", " ", "9", "0", ".", "1", "S",
       ",", " ", "1", "7", "9", ".", "9", "E", ",", " ", "1", "0", "5", "\n" >>

\* \n
BLANK_LINE ==
    << "\n" >>

\* An empty string: a line with no terminator and no text.
EMPTY_LINE == << >>

LineSet ==
    { HEADER_WILMA_100,
      HEADER_WILMA_1,
      HEADER_BLANK_2,
      DATA_WILMA,
      DATA_1851,
      DATA_SOUTH_EAST,
      DATA_BAD_WIND,
      DATA_BAD_DATE,
      DATA_BAD_TIME,
      DATA_LAT_90_LON_180,
      DATA_LAT_901_LON_1799,
      BLANK_LINE,
      EMPTY_LINE }
\* All lists of at most n members of S.
BoundedSeq(S, n) == UNION {[1..m -> S] : m \in 0..n}

----------------------------------------------------------------------------
(* The geometry.  shapely is not part of the repository: a geometry is the *)
(* set of points (x, y) = (longitude, latitude) that it contains.          *)

\* A faulty variant, for comparison: every point is inside.
contains_anywhere(geometry, point) == TRUE

contains(geometry, point) == point \in geometry

\* Where Wilma came ashore (25.3N 80.7W) and a point in the Gulf of
\* Mexico (28.0N 94.8W), as shapely points.
POINT_WILMA == << 0 - 807, 253 >>

POINT_GULF == << 0 - 948, 280 >>

Areas == { {POINT_WILMA}, {POINT_GULF} }

HU == << "H", "U" >>

TS == << "T", "S" >>

----------------------------------------------------------------------------
(* StormDataService.tracks drawn directly, for the runs that start at      *)
(* record_landfall_events: every list of validated tracks of at most       *)
(* MaxSize tracks and entries together.  An entry is at one of three       *)
(* locations (the third has a latitude the setter rejected) with status HU *)
(* or TS; its time and windspeed follow from its place in the track, so    *)
(* the entries of a track are chronological and pairwise different.        *)

NEW_TRACK == [new_track |-> TRUE]

EntryKinds ==
    { [location |-> loc, system_status |-> status] :
        loc \in { LatLongPoint(253, 0 - 807), LatLongPoint(280, 0 - 948),
                  LatLongPoint(901, 0 - 807) },
        status \in {HU, TS} }

StormNames ==
    << << "W", "I", "L", "M", "A" >>, << "I", "R", "M", "A" >>,
       << "K", "A", "T", "I", "A" >> >>

DrawnEntry(kind, n) ==
    TrackEntry(kind.location,
               [year |-> 2005, month |-> 10, day |-> 24, hour |-> n, minute |-> 30],
               << >>, kind.system_status, 100 + 5 * n)

\* The tracks a flat list of NEW_TRACK marks and entry kinds spells.
DrawnTracks(flat) ==
    LET starts == {n \in 1..Len(flat) : flat[n] = NEW_TRACK}
        nth(q) == CHOOSE n \in starts : Cardinality({m \in starts : m < n}) = q - 1
        last(q) == IF q = Cardinality(starts) THEN Len(flat) ELSE nth(q + 1) - 1
    IN  [q \in 1..Cardinality(starts) |->
            [ Track(<< "A", "L" >>, 2005, q, StormNames[((q - 1) % 3) + 1],
                    last(q) - nth(q))
              EXCEPT !.track_entries =
                  [n \in 1..(last(q) - nth(q)) |-> DrawnEntry(flat[nth(q) + n], n)] ]]

TrackLists(size) ==
    { DrawnTracks(flat) :
        flat \in { f \in BoundedSeq({NEW_TRACK} \cup EntryKinds, size) :
                     f # << >> => f[1] = NEW_TRACK } }

----------------------------------------------------------------------------
(* The report and the disk (services.py: ReportService; repositories.py:   *)
(* JSONReportRepository).  A dict is a function of its keys.  A path is    *)
(* the list of its parts, and every path of the disk has a node: missing,  *)
(* a directory, or a file with the value json.dump wrote to it.            *)

\* {}
EMPTY_DICT == [key \in {} |-> 0]

Node(kind, content) == [kind |-> kind, content |-> content]

MISSING == Node("missing", EMPTY_DICT)

DIRECTORY == Node("dir", EMPTY_DICT)

File(content) == Node("file", content)

\* "./", "./reports/" (constants.REPORT), "./thisdoesnotexist/" and the
\* log file "./app.log" given as target directories.
CWD == << "." >>

REPORT == << ".", "reports" >>

NO_SUCH_DIRECTORY == << ".", "thisdoesnotexist" >>

APP_LOG == << ".", "app.log" >>

Targets == {CWD, REPORT, NO_SUCH_DIRECTORY, APP_LOG}

\* Path(target + "/HURDAT2_REPORT.json"), for a target that is not empty.
report_path(directory) == Append(directory, "HURDAT2_REPORT.json")

Paths == Targets \cup {report_path(directory) : directory \in Targets}

\* str(datetime.today()) on two days.
ReportDates ==
    { << "2", "0", "2", "2", "-", "1", "0", "-", "0", "5" >>,
      << "2", "0", "2", "2", "-", "1", "0", "-", "0", "6" >> }

\* ReportService.generate: the dict it stores.
generated_report(date, storms) ==
    [key \in {"Report Date", "Storms making landfall:"} |->
        IF key = "Report Date" THEN date ELSE storms]

\* A report saved on an earlier day.
OLD_REPORT ==
    generated_report(<< "2", "0", "2", "2", "-", "1", "0", "-", "0", "4" >>, << >>)

\* The disks the program may find: the working directory exists and may
\* hold an old report, ./reports is missing, a directory (with or without
\* an old report) or a file, ./thisdoesnotexist is missing and ./app.log is
\* a file; nothing lies under a path that is no directory.
FileSystems ==
    { [path \in Paths |->
          IF path = CWD THEN DIRECTORY
          ELSE IF path = REPORT THEN reports
          ELSE IF path = APP_LOG THEN File(EMPTY_DICT)
          ELSE IF path = report_path(CWD) THEN old_here
          ELSE IF path = report_path(REPORT) /\ reports = DIRECTORY THEN old_there
          ELSE MISSING] :
        reports \in {MISSING, DIRECTORY, File(EMPTY_DICT)},
        old_here \in {MISSING, File(OLD_REPORT)},
        old_there \in {MISSING, File(OLD_REPORT)} }

\* Path.exists() and Path.is_dir().
exists(disk, path) == disk[path].kind # "missing"

is_dir(disk, path) == disk[path].kind = "dir"

\* A faulty variant, for comparison: only a missing target is refused.
target_refused_if_missing(disk, directory) == ~ exists(disk, directory)

\* Line 263: not directory.exists() or not directory.is_dir().
target_refused(disk, directory) ==
    ~ exists(disk, directory) \/ ~ is_dir(disk, directory)

\* JSONReportRepository.save: the code it returns and the disk it leaves.
JSONReportRepository_save(directory, data, disk) ==
    IF target_refused(disk, directory)
    THEN [code |-> 400, disk |-> disk]
    ELSE [code |-> 200,
          disk |-> [disk EXCEPT ![report_path(directory)] = File(data)]]

\* The disk main.py finds when the report directory is in place.
DISK_WITH_REPORTS ==
    [path \in Paths |->
        IF path \in {CWD, REPORT} THEN DIRECTORY
        ELSE IF path = APP_LOG THEN File(EMPTY_DICT)
        ELSE MISSING]

----------------------------------------------------------------------------
(* The program.                                                            *)

\* main.py: the repository is handed the lines of its file and the area
\* service its geometry; nothing has run.
Init ==
    /\ lines \in BoundedSeq(LineSet, MaxLines)
    /\ area \in Areas
    /\ i = 0
    /\ tracks = << >>
    /\ track = 0
    /\ result = << >>
    /\ pc = "parse"
    /\ error = NoError
    /\ self_tracks = << >>
    /\ t = 0
    /\ k = 0
    /\ in_area = FALSE
    /\ entries = << >>
    /\ landfalls = << >>
    /\ records = << >>
    /\ contains_calls = << >>
    /\ report_date \in {CHOOSE date \in ReportDates : TRUE}
    /\ report = EMPTY_DICT
    /\ target = REPORT
    /\ file_system = DISK_WITH_REPORTS
    /\ return_code = 0
    /\ legacy_track_entries = << >>
    /\ legacy_header = << >>
    /\ iterations = 0

\* A StormDataService whose repository has returned its tracks.
InitService ==
    /\ self_tracks \in TrackLists(MaxSize)
    /\ area \in Areas
    /\ lines = << >>
    /\ i = 0
    /\ tracks = self_tracks
    /\ track = Len(self_tracks)
    /\ result = self_tracks
    /\ pc = "record"
    /\ error = NoError
    /\ t = 0
    /\ k = 0
    /\ in_area = FALSE
    /\ entries = << >>
    /\ landfalls = << >>
    /\ records = << >>
    /\ contains_calls = << >>
    /\ report_date \in {CHOOSE date \in ReportDates : TRUE}
    /\ report = EMPTY_DICT
    /\ target = REPORT
    /\ file_system = DISK_WITH_REPORTS
    /\ return_code = 0
    /\ legacy_track_entries = << >>
    /\ legacy_header = << >>
    /\ iterations = 0

Raise(exception) ==
    /\ pc' = "raised"
    /\ error' = exception

\* A faulty variant, for comparison: a header of a storm that already has a
\* track (same basin, year and number) reopens that track.
ParseHeaderLine_SameStormJoins ==
    /\ pc = "parse"
    /\ i < Len(lines)
    /\ _is_header(lines[i + 1])
    /\ LET parsed == _parse_header(lines[i + 1])
           same == {q \in 1..Len(tracks) :
                      /\ tracks[q].basin = parsed.value.basin
                      /\ tracks[q].year = parsed.value.year
                      /\ tracks[q].cyclone_no = parsed.value.cyclone_no}
       IN  IF ~ parsed.ok
           THEN /\ Raise(parsed.error)
                /\ UNCHANGED << tracks, track, i >>
           ELSE IF same # {}
           THEN /\ track' = CHOOSE q \in same : TRUE
                /\ i' = i + 1
                /\ UNCHANGED << tracks, pc, error >>
           ELSE /\ tracks' = Append(tracks, parsed.value)
                /\ track' = Len(tracks) + 1
                /\ i' = i + 1
                /\ UNCHANGED << pc, error >>
    /\ UNCHANGED << lines, result, area >>
    /\ UNCHANGED service_vars
    /\ UNCHANGED << report_vars, legacy_vars >>

\* _parse_tracks, the loop body for a header line.
ParseHeaderLine ==
    /\ pc = "parse"
    /\ i < Len(lines)
    /\ _is_header(lines[i + 1])
    /\ LET parsed == _parse_header(lines[i + 1])
       IN  IF parsed.ok
           THEN /\ tracks' = Append(tracks, parsed.value)
                /\ track' = Len(tracks) + 1
                /\ i' = i + 1
                /\ UNCHANGED << pc, error >>
           ELSE /\ Raise(parsed.error)
                /\ UNCHANGED << tracks, track, i >>
    /\ UNCHANGED << lines, result, area >>
    /\ UNCHANGED service_vars
    /\ UNCHANGED << report_vars, legacy_vars >>

\* A faulty variant, for comparison: a data line that cannot be parsed is skipped.
ParseDataLine_SkipUnparsed ==
    /\ pc = "parse"
    /\ i < Len(lines)
    /\ ~ _is_header(lines[i + 1])
    /\ lines[i + 1] # << >>
    /\ IF track = 0
       THEN /\ Raise(Exception("UnboundLocalError", "track", << >>))
            /\ UNCHANGED << tracks, i >>
       ELSE LET parsed == _parse_track_entry(lines[i + 1])
            IN  /\ tracks' = IF parsed.ok
                             THEN [tracks EXCEPT ![track].track_entries =
                                                     Append(@, parsed.value)]
                             ELSE tracks
                /\ i' = i + 1
                /\ UNCHANGED << pc, error >>
    /\ UNCHANGED << lines, track, result, area >>
    /\ UNCHANGED service_vars
    /\ UNCHANGED << report_vars, legacy_vars >>

\* _parse_tracks, the loop body for a line that is no header and is not
\* the empty string: track.track_entries.append(_parse_track_entry(line)).
\* Python reads the local `track` before it evaluates the argument.
ParseDataLine ==
    /\ pc = "parse"
    /\ i < Len(lines)
    /\ ~ _is_header(lines[i + 1])
    /\ lines[i + 1] # << >>
    /\ IF track = 0
       THEN /\ Raise(Exception("UnboundLocalError", "track", << >>))
            /\ UNCHANGED << tracks, i >>
       ELSE LET parsed == _parse_track_entry(lines[i + 1])
            IN  IF parsed.ok
                THEN /\ tracks' = [tracks EXCEPT ![track].track_entries =
                                                     Append(@, parsed.value)]
                     /\ i' = i + 1
                     /\ UNCHANGED << pc, error >>
                ELSE /\ Raise(parsed.error)
                     /\ UNCHANGED << tracks, i >>
    /\ UNCHANGED << lines, track, result, area >>
    /\ UNCHANGED service_vars
    /\ UNCHANGED << report_vars, legacy_vars >>

\* _parse_tracks, the loop body for the empty string: neither branch runs.
SkipEmptyLine ==
    /\ pc = "parse"
    /\ i < Len(lines)
    /\ ~ _is_header(lines[i + 1])
    /\ lines[i + 1] = << >>
    /\ i' = i + 1
    /\ UNCHANGED << lines, tracks, track, result, pc, error, area >>
    /\ UNCHANGED service_vars
    /\ UNCHANGED << report_vars, legacy_vars >>

\* _parse_tracks returns the tracks that validate.
ParseReturn ==
    /\ pc = "parse"
    /\ i = Len(lines)
    /\ result' = SelectSeq(tracks, validate_entries)
    /\ pc' = "extracted"
    /\ UNCHANGED << lines, i, tracks, track, error, area >>
    /\ UNCHANGED service_vars
    /\ UNCHANGED << report_vars, legacy_vars >>

\* StormDataService.__init__ keeps what extract_data returned, and
\* record_landfall_events starts with no records.
ServiceStart ==
    /\ pc = "extracted"
    /\ self_tracks' = result
    /\ records' = << >>
    /\ t' = 0
    /\ pc' = "record"
    /\ UNCHANGED << k, in_area, entries, landfalls, contains_calls, error, area >>
    /\ UNCHANGED parser_vars
    /\ UNCHANGED << report_vars, legacy_vars >>

\* record_landfall_events takes the next track and calls
\* get_landfall_dates, which starts with in_area False and no entries.
CallDetect ==
    /\ pc = "record"
    /\ t < Len(self_tracks)
    /\ t' = t + 1
    /\ in_area' = FALSE
    /\ entries' = << >>
    /\ k' = 0
    /\ contains_calls' = << >>
    /\ pc' = "detect"
    /\ UNCHANGED << self_tracks, landfalls, records, error, area >>
    /\ UNCHANGED parser_vars
    /\ UNCHANGED << report_vars, legacy_vars >>

\* A faulty variant, for comparison: the status is not looked at.
is_hurricane_any(track_entry) == TRUE

\* The first half of the test of line 113: the entry has a hurricane
\* designation.
is_hurricane(track_entry) == track_entry.system_status = HU

\* A faulty variant, for comparison: the flag survives an entry that is no landfall.
after_miss_kept(flag) == flag

\* Line 114: the flag after an entry that fails the test of line 113.
after_miss(flag) == FALSE

\* A faulty variant, for comparison: no entry is taken for the continuation of a landfall.
already_inside_never(flag) == FALSE

\* Line 117: the entry continues a landfall that has already been recorded.
already_inside(flag) == flag

\* A faulty variant, for comparison: the new event is put in front.
entries_insert_first(list, track_entry) == << track_entry >> \o list

\* Line 123: entries.append(track_entry).
entries_append(list, track_entry) == Append(list, track_entry)

\* A faulty variant, for comparison: the area test is evaluated twice.
contains_called_twice(log, place) == log \o << place, place >>

\* Line 113: area.contains is called, once, for the entry at `place`.
contains_called(log, place) == Append(log, place)

\* get_landfall_dates, the loop body for one entry.  The `and` of line 113
\* calls to_point and area.contains only for a hurricane entry, and
\* to_point raises for a location with an unset coordinate.
DetectStep ==
    /\ pc = "detect"
    /\ k < Len(self_tracks[t].track_entries)
    /\ LET track_entry == self_tracks[t].track_entries[k + 1]
           point == to_point(track_entry.location)
       IN  IF ~ is_hurricane(track_entry)
           THEN /\ in_area' = after_miss(in_area)
                /\ k' = k + 1
                /\ UNCHANGED << entries, pc, error >>
           ELSE IF ~ point.ok
           THEN /\ Raise(point.error)
                /\ UNCHANGED << in_area, k, entries >>
           ELSE IF ~ contains(area, point.value)
           THEN /\ in_area' = after_miss(in_area)
                /\ k' = k + 1
                /\ UNCHANGED << entries, pc, error >>
           ELSE IF already_inside(in_area)
           THEN /\ k' = k + 1
                /\ UNCHANGED << in_area, entries, pc, error >>
           ELSE /\ in_area' = TRUE
                /\ entries' = entries_append(entries, track_entry)
                /\ k' = k + 1
                /\ UNCHANGED << pc, error >>
    /\ LET track_entry == self_tracks[t].track_entries[k + 1]
       IN  contains_calls' =
               IF is_hurricane(track_entry) /\ to_point(track_entry.location).ok
               THEN contains_called(contains_calls, k + 1)
               ELSE contains_calls
    /\ UNCHANGED << self_tracks, t, landfalls, records, area >>
    /\ UNCHANGED parser_vars
    /\ UNCHANGED << report_vars, legacy_vars >>

\* One member of a record's landfall_events.
LandfallRecord(landfall) ==
    [datetime |-> isoformat(landfall.datetime),
     max_windspeed_kts |-> landfall.max_windspeed]

\* A faulty variant, for comparison: a track with no landfall gets a record too.
skip_track_never(found) == FALSE

\* Line 135: `if not landfalls: continue`.
skip_track(found) == found = << >>

\* The windspeeds of a list of entries and Track.max_windspeed at most.
RECURSIVE max_of(_, _)
max_of(list, least) ==
    IF list = << >> THEN least
    ELSE max_of(Tail(list),
                IF Head(list).max_windspeed > least
                THEN Head(list).max_windspeed ELSE least)

\* A faulty variant, for comparison: the track is given the greatest
\* windspeed of its landfalls (Track.set_max_windspeed) on return.
DetectReturn_SetsMaxWindspeed ==
    /\ pc = "detect"
    /\ k = Len(self_tracks[t].track_entries)
    /\ landfalls' = entries
    /\ self_tracks' = [self_tracks EXCEPT ![t].max_windspeed = max_of(entries, @)]
    /\ records' =
          IF entries = << >> THEN records
          ELSE Append(records,
                      [name |-> self_tracks[t].name,
                       landfall_events |->
                           [n \in 1..Len(entries) |-> LandfallRecord(entries[n])]])
    /\ pc' = "record"
    /\ UNCHANGED << t, k, in_area, entries, contains_calls, error, area >>
    /\ UNCHANGED parser_vars
    /\ UNCHANGED << report_vars, legacy_vars >>

\* get_landfall_dates returns its entries; record_landfall_events skips a
\* track with none and appends a record for any other.
DetectReturn ==
    /\ pc = "detect"
    /\ k = Len(self_tracks[t].track_entries)
    /\ landfalls' = entries
    /\ records' =
          IF skip_track(entries) THEN records
          ELSE Append(records,
                      [name |-> self_tracks[t].name,
                       landfall_events |->
                           [n \in 1..Len(entries) |-> LandfallRecord(entries[n])]])
    /\ pc' = "record"
    /\ UNCHANGED << self_tracks, t, k, in_area, entries, contains_calls, error, area >>
    /\ UNCHANGED parser_vars
    /\ UNCHANGED << report_vars, legacy_vars >>

\* record_landfall_events returns its records.
RecordReturn ==
    /\ pc = "record"
    /\ t = Len(self_tracks)
    /\ pc' = "done"
    /\ UNCHANGED << error, area >>
    /\ UNCHANGED service_vars
    /\ UNCHANGED parser_vars
    /\ UNCHANGED << report_vars, legacy_vars >>

NextService ==
    \/ CallDetect
    \/ DetectStep
    \/ DetectReturn
    \/ RecordReturn

Next ==
    \/ ParseHeaderLine
    \/ ParseDataLine
    \/ SkipEmptyLine
    \/ ParseReturn
    \/ ServiceStart
    \/ NextService

\* The whole program: parse the lines, then record the landfall events.
Spec == Init /\ [][Next]_vars

\* record_landfall_events on a service holding any list of validated tracks.
SpecService == InitService /\ [][NextService]_vars

----------------------------------------------------------------------------
(* The report run: main.py from the events record_landfall_events returned *)
(* (lines 29-33), with any target directory on any of the disks.           *)

\* The records of the storms: a name and its landfall events.
StormRecords ==
    { [name |-> StormNames[n],
       landfall_events |->
           [m \in 1..count |->
               LandfallRecord(DrawnEntry([location |-> LatLongPoint(253, 0 - 807),
                                          system_status |-> HU], m))]] :
        n \in 1..Len(StormNames), count \in 1..2 }

\* A ReportService just built, and the events it will be given.
InitReport ==
    /\ records \in BoundedSeq(StormRecords, MaxStorms)
    /\ report_date \in ReportDates
    /\ report = EMPTY_DICT
    /\ target \in Targets
    /\ file_system \in FileSystems
    /\ return_code = 0
    /\ pc = "done"
    /\ error = NoError
    /\ area \in {CHOOSE geometry \in Areas : TRUE}
    /\ lines = << >>
    /\ i = 0
    /\ tracks = << >>
    /\ track = 0
    /\ result = << >>
    /\ self_tracks = << >>
    /\ t = 0
    /\ k = 0
    /\ in_area = FALSE
    /\ entries = << >>
    /\ landfalls = << >>
    /\ contains_calls = << >>
    /\ legacy_track_entries = << >>
    /\ legacy_header = << >>
    /\ iterations = 0

\* ReportService.generate(events).
Generate ==
    /\ pc = "done"
    /\ report' = generated_report(report_date, records)
    /\ pc' = "generated"
    /\ UNCHANGED << report_date, target, file_system, return_code, error, area >>
    /\ UNCHANGED << parser_vars, service_vars, legacy_vars >>

\* ReportService.save(target): the repository saves self.report, generated
\* or not, and its code is returned as it is.
Save ==
    /\ pc \in {"done", "generated"}
    /\ LET return_code_of_repository ==
               JSONReportRepository_save(target, report, file_system)
       IN  /\ file_system' = return_code_of_repository.disk
           /\ return_code' = return_code_of_repository.code
    /\ pc' = "saved"
    /\ UNCHANGED << report_date, report, target, error, area >>
    /\ UNCHANGED << parser_vars, service_vars, legacy_vars >>

NextReport ==
    \/ Generate
    \/ Save

\* Generating and saving the report of any list of storm records.
SpecReport == InitReport /\ [][NextReport]_vars

----------------------------------------------------------------------------
(* data_models.py: the legacy parser TextSource._parse_tracks, a while     *)
(* loop over the index i with an inner loop for the data lines of a header. *)

\* re.match(r"^AL(\d{6})", line)
TextSource_is_header(line) ==
    /\ Len(line) >= 8
    /\ line[1] = "A" /\ line[2] = "L"
    /\ AllDigits(SubSeq(line, 3, 8))

\* Lines 153-159: the locals read from a header line.
TextSource_parse_header(line) ==
    LET parts == Fields(line)
    IN  IF ~ HasCol(parts, 1) \/ ~ HasCol(parts, 2)
        THEN [ok |-> FALSE, error |-> Exception("IndexError", "list index out of range", << >>)]
        ELSE IF ~ IntOk(At(parts, 2))
        THEN [ok |-> FALSE,
              error |-> Exception("ValueError", "invalid literal for int() with base 10",
                                 << At(parts, 2) >>)]
        ELSE [ok |-> TRUE,
              value |-> [basin |-> SubSeq(At(parts, 0), 1, 2),
                         cyclone_no |-> DecimalVal(SubSeq(At(parts, 0), 3, 4)),
                         year |-> DecimalVal(SubSeq(At(parts, 0), 5, 8)),
                         name |-> At(parts, 1),
                         no_track_entries |-> IntVal(At(parts, 2))]]

\* TextSource._parse_data_line: the windspeed stays a string, and both
\* coordinates are multiplied by -1 ** (...), which is -1.
TextSource_parse_data_line(line) ==
    LET data_line == Fields(line)
        index_error == [ok |-> FALSE,
                        error |-> Exception("IndexError", "list index out of range", << >>)]
        float_error(field) ==
            [ok |-> FALSE,
             error |-> Exception("ValueError", "could not convert string to float",
                                 << SubSeq(field, 1, Len(field) - 1) >>)]
    IN  IF ~ HasCol(data_line, 1) THEN index_error
        ELSE
        LET track_datetime == fromisoformat(At(data_line, 0) \o << "T" >>
                                              \o At(data_line, 1) \o << "Z" >>)
        IN  IF ~ track_datetime.ok THEN track_datetime
            ELSE IF ~ HasCol(data_line, 6) THEN index_error
            ELSE IF ~ FloatOk(SubSeq(At(data_line, 4), 1, Len(At(data_line, 4)) - 1))
            THEN float_error(At(data_line, 4))
            ELSE IF ~ FloatOk(SubSeq(At(data_line, 5), 1, Len(At(data_line, 5)) - 1))
            THEN float_error(At(data_line, 5))
            ELSE [ok |-> TRUE,
                  value |->
                      [latitude |-> 0 - FloatTenths(SubSeq(At(data_line, 4), 1,
                                                           Len(At(data_line, 4)) - 1)),
                       longitude |-> 0 - FloatTenths(SubSeq(At(data_line, 5), 1,
                                                            Len(At(data_line, 5)) - 1)),
                       datetime |-> track_datetime.value,
                       record_identifier |-> At(data_line, 2),
                       system_status |-> At(data_line, 3),
                       max_windspeed |-> At(data_line, 6)]]

\* TextSource._parse_tracks is called with any list of lines.
InitLegacy ==
    /\ lines \in BoundedSeq(LineSet, MaxLines)
    /\ i = 0
    /\ tracks = << >>
    /\ legacy_track_entries = << >>
    /\ legacy_header = << >>
    /\ iterations = 0
    /\ pc = "legacy_outer"
    /\ error = NoError
    /\ track = 0
    /\ result = << >>
    /\ area \in {CHOOSE geometry \in Areas : TRUE}
    /\ self_tracks = << >>
    /\ t = 0
    /\ k = 0
    /\ in_area = FALSE
    /\ entries = << >>
    /\ landfalls = << >>
    /\ records = << >>
    /\ contains_calls = << >>
    /\ report_date \in {CHOOSE date \in ReportDates : TRUE}
    /\ report = EMPTY_DICT
    /\ target = REPORT
    /\ file_system = DISK_WITH_REPORTS
    /\ return_code = 0

\* Lines 151-162: the outer loop's body at a header line.
LegacyOuterHeader ==
    /\ pc = "legacy_outer"
    /\ i < Len(lines)
    /\ TextSource_is_header(lines[i + 1])
    /\ iterations' = iterations + 1
    /\ LET parsed == TextSource_parse_header(lines[i + 1])
       IN  IF parsed.ok
           THEN /\ legacy_header' = parsed.value
                /\ legacy_track_entries' = << >>
                /\ i' = i + 1
                /\ pc' = "legacy_inner"
                /\ UNCHANGED error
           ELSE /\ Raise(parsed.error)
                /\ UNCHANGED << legacy_header, legacy_track_entries, i >>
    /\ UNCHANGED << lines, tracks, track, result, area >>
    /\ UNCHANGED << service_vars, report_vars >>

\* Lines 151-152 at a line that is no header: the `if` has no else, so the
\* body does nothing and the loop tests the same i again.
LegacyOuterOther ==
    /\ pc = "legacy_outer"
    /\ i < Len(lines)
    /\ ~ TextSource_is_header(lines[i + 1])
    /\ iterations < MaxIterations
    /\ iterations' = iterations + 1
    /\ UNCHANGED << legacy_header, legacy_track_entries, pc, error, area >>
    /\ UNCHANGED << parser_vars, service_vars, report_vars >>

\* Lines 163-167: the inner loop at the empty string.
LegacyInnerEmpty ==
    /\ pc = "legacy_inner"
    /\ i < Len(lines)
    /\ ~ TextSource_is_header(lines[i + 1])
    /\ lines[i + 1] = << >>
    /\ i' = i + 1
    /\ UNCHANGED << lines, tracks, track, result, pc, error, area >>
    /\ UNCHANGED << service_vars, report_vars, legacy_vars >>

\* Lines 163-169: the inner loop at any other line.
LegacyInnerData ==
    /\ pc = "legacy_inner"
    /\ i < Len(lines)
    /\ ~ TextSource_is_header(lines[i + 1])
    /\ lines[i + 1] # << >>
    /\ LET parsed == TextSource_parse_data_line(lines[i + 1])
       IN  IF parsed.ok
           THEN /\ legacy_track_entries' = Append(legacy_track_entries, parsed.value)
                /\ i' = i + 1
                /\ UNCHANGED << pc, error >>
           ELSE /\ Raise(parsed.error)
                /\ UNCHANGED << legacy_track_entries, i >>
    /\ UNCHANGED << lines, tracks, track, result, area, legacy_header, iterations >>
    /\ UNCHANGED << service_vars, report_vars >>

\* Lines 163 and 171-176: the inner loop ends at a header or at the end of
\* the lines, and the track is built and appended.
LegacyInnerExit ==
    /\ pc = "legacy_inner"
    /\ IF i = Len(lines) THEN TRUE ELSE TextSource_is_header(lines[i + 1])
    /\ tracks' = Append(tracks,
                        [basin |-> legacy_header.basin,
                         year |-> legacy_header.year,
                         cyclone_no |-> legacy_header.cyclone_no,
                         no_track_entries |-> legacy_header.no_track_entries,
                         track_entries |-> legacy_track_entries])
    /\ pc' = "legacy_outer"
    /\ UNCHANGED << lines, i, track, result, error, area >>
    /\ UNCHANGED << service_vars, report_vars, legacy_vars >>

\* Lines 151 and 177: i has reached line_ct.
LegacyReturn ==
    /\ pc = "legacy_outer"
    /\ i = Len(lines)
    /\ result' = tracks
    /\ pc' = "legacy_returned"
    /\ UNCHANGED << lines, i, tracks, track, error, area >>
    /\ UNCHANGED << service_vars, report_vars, legacy_vars >>

NextLegacy ==
    \/ LegacyOuterHeader
    \/ LegacyOuterOther
    \/ LegacyInnerEmpty
    \/ LegacyInnerData
    \/ LegacyInnerExit
    \/ LegacyReturn

\* The legacy parser on any list of lines.
SpecLegacy == InitLegacy /\ [][NextLegacy]_vars

----------------------------------------------------------------------------
(* The landfall detector: what get_landfall_dates returned.                *)

\* get_landfall_dates has returned for track t, and `landfalls` holds what
\* it returned.
DetectReturned == pc \in {"record", "done"} /\ t >= 1

\* The entries of the track get_landfall_dates was last called with.
CalledEntries == self_tracks[t].track_entries

\* The entry lies inside the area: its location has both coordinates and
\* the geometry contains its point.
InArea(track_entry) ==
    /\ to_point(track_entry.location).ok
    /\ to_point(track_entry.location).value \in area

\* Every entry of the track has a location with both coordinates.
AllLocated(track_entries) ==
    \A n \in 1..Len(track_entries) : to_point(track_entries[n].location).ok

\* The places of the in-area entries of a track, whatever their status.
InAreaPlaces(track_entries) ==
    {n \in 1..Len(track_entries) : InArea(track_entries[n])}

\* The places of the entries that are hurricanes inside the area.
HurricaneInAreaPlaces(track_entries) ==
    {n \in 1..Len(track_entries) :
        track_entries[n].system_status = HU /\ InArea(track_entries[n])}

\* Where the maximal contiguous runs of a set of places start.
RunStarts(places) == {n \in places : (n - 1) \notin places}

\* The members of a finite set of numbers in ascending order.
RECURSIVE Ascending(_)
Ascending(places) ==
    IF places = {} THEN << >>
    ELSE LET least == CHOOSE n \in places : \A m \in places : n <= m
         IN  << least >> \o Ascending(places \ {least})

\* The first entries of the runs of a set of places, in track order.
RunHeads(track_entries, places) ==
    LET starts == Ascending(RunStarts(places))
    IN  [n \in 1..Len(starts) |-> track_entries[starts[n]]]

\* C1 as stated: a track with exactly one maximal contiguous run of entries
\* inside the area yields exactly one event, the first entry of that run
\* (stated here for the tracks all of whose entries have both coordinates).
C1_OneInAreaRunOneEvent ==
    DetectReturned /\ AllLocated(CalledEntries) =>
        LET places == InAreaPlaces(CalledEntries)
        IN  Cardinality(RunStarts(places)) = 1 =>
                landfalls = RunHeads(CalledEntries, places)

\* C1 amended: a track with exactly one maximal contiguous run of entries
\* that are inside the area with status HU yields exactly one event, the
\* first entry of that run with its timestamp and its windspeed, and a run
\* of N >= 2 such entries does not yield N events.
C1_OneHurricaneRunOneEvent ==
    DetectReturned =>
        LET places == HurricaneInAreaPlaces(CalledEntries)
            first  == CHOOSE n \in places : \A m \in places : n <= m
        IN  Cardinality(RunStarts(places)) = 1 =>
                /\ Len(landfalls) = 1
                /\ landfalls[1] = CalledEntries[first]
                /\ landfalls[1].datetime = CalledEntries[first].datetime
                /\ landfalls[1].max_windspeed = CalledEntries[first].max_windspeed
                /\ Cardinality(places) >= 2 => Len(landfalls) # Cardinality(places)

\* C1's case: a single run of three hurricane entries inside the area that
\* starts at the second entry of the track gave that entry alone.
C1_Witness ==
    /\ DetectReturned
    /\ Len(CalledEntries) = 4
    /\ HurricaneInAreaPlaces(CalledEntries) = {2, 3, 4}
    /\ landfalls = << CalledEntries[2] >>

\* C2 as stated: a track with exactly two runs of entries inside the area,
\* separated by at least one entry outside it, yields exactly two events,
\* the first entry of each run, in track order (stated here for the tracks
\* all of whose entries have both coordinates).
C2_TwoInAreaRunsTwoEvents ==
    DetectReturned /\ AllLocated(CalledEntries) =>
        LET places == InAreaPlaces(CalledEntries)
        IN  Cardinality(RunStarts(places)) = 2 =>
                landfalls = RunHeads(CalledEntries, places)

\* C2 amended: a track with exactly two runs of entries that are inside the
\* area with status HU, separated by at least one entry that is not, yields
\* exactly two events, the first entry of each run, in track order.
C2_TwoHurricaneRunsTwoEvents ==
    DetectReturned =>
        LET places == HurricaneInAreaPlaces(CalledEntries)
            starts == Ascending(RunStarts(places))
        IN  Cardinality(RunStarts(places)) = 2 =>
                /\ Len(landfalls) = 2
                /\ landfalls[1] = CalledEntries[starts[1]]
                /\ landfalls[2] = CalledEntries[starts[2]]
                /\ starts[1] < starts[2]

\* C2's case: a run of two, an entry outside the area, then a second run
\* gave the first and the fourth entry.
C2_Witness ==
    /\ DetectReturned
    /\ Len(CalledEntries) = 4
    /\ HurricaneInAreaPlaces(CalledEntries) = {1, 2, 4}
    /\ ~ InArea(CalledEntries[3])
    /\ landfalls = << CalledEntries[1], CalledEntries[4] >>

----------------------------------------------------------------------------
(* The parser: what _parse_tracks did with each line.                      *)

\* _parse_tracks has returned (the program is past it, or an exception was
\* raised later, inside the service).
ParseReturned ==
    \/ pc \in {"extracted", "record", "detect", "done"}
    \/ pc = "raised" /\ t >= 1

\* _parse_tracks raised.
ParseRaised == pc = "raised" /\ t = 0

\* The places of the header lines, and of the lines the loop treats as data.
HeaderPlaces == {n \in 1..Len(lines) : _is_header(lines[n])}

DataPlaces == {n \in 1..Len(lines) : ~ _is_header(lines[n]) /\ lines[n] # << >>}

\* The place of the q-th header line.
HeaderPlace(q) ==
    CHOOSE h \in HeaderPlaces : Cardinality({m \in HeaderPlaces : m < h}) = q - 1

\* The header line nearest before place n, 0 when there is none.
HeaderBefore(n) ==
    IF \E h \in HeaderPlaces : h < n
    THEN CHOOSE h \in HeaderPlaces : h < n /\ \A m \in HeaderPlaces : m < n => m <= h
    ELSE 0

\* The places of the data lines between header h and the next header.
BlockPlaces(h) == Ascending({n \in DataPlaces : HeaderBefore(n) = h})

\* The track a header line and the data lines of its block spell.
TrackOfBlock(h) ==
    [ _parse_header(lines[h]).value EXCEPT !.track_entries =
          [n \in 1..Len(BlockPlaces(h)) |->
              _parse_track_entry(lines[BlockPlaces(h)[n]]).value] ]

C4_OrphanDataLineSkipped ==
    ~ ( /\ ParseRaised
        /\ (i + 1) \in DataPlaces
        /\ HeaderBefore(i + 1) = 0
        /\ _parse_track_entry(lines[i + 1]).ok )

\* The name every WILMA header carries, and the default of Track.name.
WILMA == << "W", "I", "L", "M", "A" >>

UNNAMED == << "U", "N", "N", "A", "M", "E", "D" >>

\* The one event of the end-to-end scenario: 105 kt at 2005-10-24T10:30Z.
WilmaLandfallReturned ==
    /\ Len(landfalls) = 1
    /\ landfalls[1].max_windspeed = 105
    /\ landfalls[1].datetime =
           [year |-> 2005, month |-> 10, day |-> 24, hour |-> 10, minute |-> 30]
    /\ records =
           << [name |-> WILMA,
               landfall_events |->
                   << [datetime |-> << "2", "0", "0", "5", "-", "1", "0", "-", "2", "4",
                                       "T", "1", "0", ":", "3", "0", ":", "0", "0",
                                       "+", "0", "0", ":", "0", "0" >>,
                       max_windspeed_kts |-> 105] >>] >>

\* C5 as stated: the header `AL252005, WILMA, 100,` and the one Wilma data
\* line give a track named WILMA in the parser's result, and the detector,
\* run on it against an area containing the point, gives exactly one event,
\* 105 kt at 2005-10-24T10:30Z.
C5_Wilma100InResultOneEvent ==
    ( /\ lines = << HEADER_WILMA_100, DATA_WILMA >>
      /\ POINT_WILMA \in area
      /\ pc = "done" )
    => /\ \E n \in 1..Len(result) : result[n].name = WILMA
       /\ WilmaLandfallReturned

\* C5 amended: with the header `AL252005, WILMA, 100,` the parser opens a
\* track named WILMA with the one entry and leaves it out of its result
\* (100 entries declared, 1 parsed); with the header `AL252005, WILMA, 1,`
\* the track is the parser's result, and the detector, run on it against an
\* area containing the point, gives exactly one event, 105 kt at
\* 2005-10-24T10:30Z.
C5_Wilma1InResultOneEvent ==
    /\ ( lines = << HEADER_WILMA_100, DATA_WILMA >> /\ ParseReturned )
       => /\ Len(tracks) = 1
          /\ tracks[1].name = WILMA
          /\ Len(tracks[1].track_entries) = 1
          /\ result = << >>
    /\ ( lines = << HEADER_WILMA_1, DATA_WILMA >> /\ ParseReturned )
       => /\ result = tracks
          /\ Len(result) = 1
          /\ result[1].name = WILMA
    /\ ( /\ lines = << HEADER_WILMA_1, DATA_WILMA >>
         /\ POINT_WILMA \in area
         /\ pc = "done" )
       => WilmaLandfallReturned

\* C5's case: the amended scenario has run to the end.
C5_Witness ==
    /\ lines = << HEADER_WILMA_1, DATA_WILMA >>
    /\ POINT_WILMA \in area
    /\ pc = "done"
    /\ Len(records) = 1

\* A data line (seven fields) whose date and time do not make a datetime
\* or whose windspeed is no integer.
HasBadField(line) ==
    LET data_line == Fields(line)
    IN  /\ ~ _is_header(line)
        /\ Len(data_line) = 7
        /\ \/ ~ fromisoformat(At(data_line, DATA_DATE_COL) \o << "T" >>
                                \o At(data_line, DATA_TIME_COL) \o << "Z" >>).ok
           \/ ~ IntOk(At(data_line, DATA_MAX_WIND_COL))

\* The lines of LineSet with such a field.
BadFieldLines == {line \in LineSet : HasBadField(line)}

\* The number of entries of all tracks together.
RECURSIVE EntriesIn(_)
EntriesIn(list) ==
    IF list = << >> THEN 0
    ELSE Len(list[1].track_entries) + EntriesIn(Tail(list))

C7_EveryLocationInRange ==
    \A q \in 1..Len(tracks) :
        \A n \in 1..Len(tracks[q].track_entries) :
            LET location == tracks[q].track_entries[n].location
            IN  /\ DOMAIN location = {"_latitude", "_longitude"}
                /\ abs(location._latitude) <= LAT_LIMIT
                /\ abs(location._longitude) < LON_LIMIT

\* The latitude and longitude fields of the data line that entry n of
\* track q was parsed from.
LineOfEntry(q, n) == lines[BlockPlaces(HeaderPlace(q))[n]]

\* The magnitude a coordinate field states, in tenths of a degree, and its
\* hemisphere letter.
Magnitude(field) == FloatTenths(SubSeq(field, 1, Len(field) - 1))

Hemisphere(field) == field[Len(field)]

\* C8: the parsed latitude is the magnitude of the latitude field, negated
\* exactly when its letter is S, and the parsed longitude is the magnitude
\* of the longitude field, negated exactly when its letter is W; a
\* coordinate is missing from the location only when that value is out of
\* range.  28.0N is +28.0, 28.0S is -28.0, 94.8W is -94.8, 94.8E is +94.8.
C8_HemisphereSign ==
    \A q \in 1..Len(tracks) :
        \A n \in 1..Len(tracks[q].track_entries) :
            LET location == tracks[q].track_entries[n].location
                lat == At(Fields(LineOfEntry(q, n)), DATA_LAT_COL)
                lon == At(Fields(LineOfEntry(q, n)), DATA_LON_COL)
                latitude  == IF Hemisphere(lat) = "S" THEN 0 - Magnitude(lat)
                                                     ELSE Magnitude(lat)
                longitude == IF Hemisphere(lon) = "W" THEN 0 - Magnitude(lon)
                                                     ELSE Magnitude(lon)
            IN  /\ IF "_latitude" \in DOMAIN location
                   THEN location._latitude = latitude
                   ELSE Magnitude(lat) > LAT_LIMIT
                /\ IF "_longitude" \in DOMAIN location
                   THEN location._longitude = longitude
                   ELSE Magnitude(lon) >= LON_LIMIT
                /\ lat = << "2", "8", ".", "0", "N" >> => location._latitude = 280
                /\ lat = << "2", "8", ".", "0", "S" >> => location._latitude = 0 - 280
                /\ lon = << "9", "4", ".", "8", "W" >> => location._longitude = 0 - 948
                /\ lon = << "9", "4", ".", "8", "E" >> => location._longitude = 948

\* C8's case: a track holds the entry of the 28.0N 94.8W line and the entry
\* of the 28.0S 94.8E line, with the signs of their letters.
C8_Witness ==
    /\ lines = << HEADER_BLANK_2, DATA_1851, DATA_SOUTH_EAST >>
    /\ i = 3
    /\ tracks[1].track_entries[1].location = [_latitude |-> 280, _longitude |-> 0 - 948]
    /\ tracks[1].track_entries[2].location = [_latitude |-> 0 - 280, _longitude |-> 948]

\* C9: a track opened from a header whose name field is empty after
\* trimming is named UNNAMED; any other track has the trimmed field as its
\* name.
C9_EmptyNameIsUnnamed ==
    \A q \in 1..Len(tracks) :
        LET name == At(Fields(lines[HeaderPlace(q)]), HEADER_NAME_COL)
        IN  tracks[q].name = (IF name = << >> THEN UNNAMED ELSE name)

----------------------------------------------------------------------------
(* The report records: what record_landfall_events built.                  *)

\* The landfall events of a track: the first entry of each run of entries
\* that are hurricanes inside the area.
Landfalls(track_entries) ==
    RunHeads(track_entries, HurricaneInAreaPlaces(track_entries))

\* The record of a track with the events `found`.
RecordOf(storm, found) ==
    [name |-> storm.name,
     landfall_events |->
         [n \in 1..Len(found) |->
             [datetime |-> isoformat(found[n].datetime),
              max_windspeed_kts |-> found[n].max_windspeed]]]

\* The tracks among the first `done` of self.tracks that have a landfall
\* event, in the order of self.tracks.
WithLandfall(done) ==
    Ascending({q \in 1..done : Landfalls(self_tracks[q].track_entries) # << >>})

\* C10: record_landfall_events returns one record per track that has at
\* least one landfall event and none for a track with no event, in the
\* order of their tracks in self.tracks, each with its track's name and its
\* events in detector order; no record has an empty landfall_events list.
\* The same holds of the records built so far after each track.
C10_OneRecordPerTrackWithLandfall ==
    /\ \A n \in 1..Len(records) : records[n].landfall_events # << >>
    /\ pc \in {"record", "done"} =>
           LET kept == WithLandfall(t)
           IN  records = [n \in 1..Len(kept) |->
                             RecordOf(self_tracks[kept[n]],
                                      Landfalls(self_tracks[kept[n]].track_entries))]
    /\ pc = "done" => t = Len(self_tracks)

\* C10's case: of three tracks the first and the third have a landfall
\* event and the second has none; two records were returned, in that order.
C10_Witness ==
    /\ pc = "done"
    /\ Len(self_tracks) = 3
    /\ Landfalls(self_tracks[1].track_entries) # << >>
    /\ Landfalls(self_tracks[2].track_entries) = << >>
    /\ Landfalls(self_tracks[3].track_entries) # << >>
    /\ Len(records) = 2
    /\ records[1].name = self_tracks[1].name
    /\ records[2].name = self_tracks[3].name

----------------------------------------------------------------------------
(* The detector's result as a part of the track.                           *)

\* sub can be got from seq by leaving members out, the rest in their order.
RECURSIVE IsSubsequence(_, _)
IsSubsequence(sub, seq) ==
    IF sub = << >> THEN TRUE
    ELSE IF seq = << >> THEN FALSE
    ELSE IF Head(sub) = Head(seq) THEN IsSubsequence(Tail(sub), Tail(seq))
    ELSE IsSubsequence(sub, Tail(seq))

\* No member of the list occurs in it twice.
NoneTwice(list) ==
    \A n, m \in 1..Len(list) : list[n] = list[m] => n = m

\* C11: the list get_landfall_dates returns is an order-preserving
\* subsequence of track.track_entries: it is no longer than the track and
\* holds no entry twice.  The same holds, while the loop runs, of the list
\* built so far and the entries the loop has finished.
C11_ResultIsSubsequence ==
    /\ pc = "detect" =>
           /\ IsSubsequence(entries, SubSeq(CalledEntries, 1, k))
           /\ Len(entries) <= k
           /\ NoneTwice(entries)
    /\ DetectReturned =>
           /\ IsSubsequence(landfalls, CalledEntries)
           /\ Len(landfalls) <= Len(CalledEntries)
           /\ NoneTwice(landfalls)

\* C11's case: a call returned two events of a track of four entries, the
\* second and the last left out.
C11_Witness ==
    /\ DetectReturned
    /\ Len(CalledEntries) = 4
    /\ landfalls = << CalledEntries[1], CalledEntries[3] >>

\* C12: for a track none of whose entries lies inside the area,
\* get_landfall_dates returns an empty list, whatever the entries' statuses
\* are: the list stays empty while the loop runs and is empty on return,
\* and the call of a track all of whose locations have both coordinates
\* does not raise.
C12_OutsideTrackNoEvent ==
    /\ ( pc = "detect" /\ InAreaPlaces(CalledEntries) = {} ) => entries = << >>
    /\ ( DetectReturned /\ InAreaPlaces(CalledEntries) = {} ) => landfalls = << >>
    /\ ( pc = "raised" /\ t >= 1 ) => ~ AllLocated(CalledEntries)

\* C12's case: a call returned for a track with a hurricane entry and an
\* entry of another status, both outside the area.
C12_Witness ==
    /\ DetectReturned
    /\ pc = "record"
    /\ InAreaPlaces(CalledEntries) = {}
    /\ AllLocated(CalledEntries)
    /\ \E n, m \in 1..Len(CalledEntries) :
           /\ CalledEntries[n].system_status = HU
           /\ CalledEntries[m].system_status = TS
    /\ landfalls = << >>

\* How often area.contains was called for the entry at `place` during the
\* call of get_landfall_dates in hand.
Evaluations(place) ==
    Cardinality({n \in 1..Len(contains_calls) : contains_calls[n] = place})

\* C13: during one call of get_landfall_dates area.contains is evaluated
\* at most once for each entry of the track, and only for entries the loop
\* has reached, so the number of evaluations never exceeds
\* len(track.track_entries).
C13_ContainsOncePerEntry ==
    t >= 1 =>
        /\ \A n \in 1..Len(contains_calls) :
               /\ contains_calls[n] \in 1..Len(CalledEntries)
               /\ pc = "detect" => contains_calls[n] <= k
        /\ \A place \in 1..Len(CalledEntries) : Evaluations(place) <= 1
        /\ Len(contains_calls) <= Len(CalledEntries)

\* C13's case: a call returned after it evaluated area.contains for two
\* entries of a track of three.
C13_Witness ==
    /\ DetectReturned
    /\ pc = "record"
    /\ Len(CalledEntries) = 3
    /\ contains_calls = << 1, 3 >>

\* C14: get_landfall_dates leaves its track unchanged, and
\* record_landfall_events leaves every track of self.tracks unchanged: no
\* step of either changes self.tracks, neither the list, nor a track's
\* header fields, nor its track_entries (length, order, every entry's
\* fields).
C14_TracksUnchanged ==
    [][ (pc \in {"record", "detect"}) => (UNCHANGED self_tracks) ]_vars

\* C14's case: record_landfall_events has returned the record of a track
\* of three entries with two events, and the track still has its entries.
C14_Witness ==
    /\ pc = "done"
    /\ Len(self_tracks) = 2
    /\ Len(records) = 1
    /\ Len(records[1].landfall_events) = 2
    /\ self_tracks[2].max_windspeed = 0
    /\ Len(self_tracks[2].track_entries) = 3

\* The predicate P of the gated detector: the entry is a hurricane and the
\* area contains its location.
Gated(track_entry) == track_entry.system_status = HU /\ InArea(track_entry)

\* The leading edges of P in a list of entries: the entries e_i with P(e_i)
\* true and i the first place or P(e_(i-1)) false, in the order of the list.
LeadingEdges(track_entries) ==
    LET edges == {n \in 1..Len(track_entries) :
                    /\ Gated(track_entries[n])
                    /\ n = 1 \/ ~ Gated(track_entries[n - 1])}
        places == Ascending(edges)
    IN  [n \in 1..Len(places) |-> track_entries[places[n]]]

\* C16: the hurricane gate is composed with the area test and the run
\* detection is the plain one over P: get_landfall_dates returns exactly
\* the leading edges of P, in track order, and while the loop runs the
\* list built so far is that of the entries finished and the flag is P of
\* the last of them.  An in-area entry that is no hurricane ends the run.
C16_ResultIsLeadingEdgesOfGate ==
    /\ pc = "detect" =>
           /\ entries = LeadingEdges(SubSeq(CalledEntries, 1, k))
           /\ in_area = (k >= 1 /\ Gated(CalledEntries[k]))
    /\ DetectReturned => landfalls = LeadingEdges(CalledEntries)

\* C16's case: hurricane inside, tropical storm inside, hurricane inside:
\* the call returned the first and the third entry.
C16_Witness ==
    /\ DetectReturned
    /\ Len(CalledEntries) = 3
    /\ \A n \in 1..3 : InArea(CalledEntries[n])
    /\ CalledEntries[1].system_status = HU
    /\ CalledEntries[2].system_status = TS
    /\ CalledEntries[3].system_status = HU
    /\ landfalls = << CalledEntries[1], CalledEntries[3] >>

\* The places, among the lines the loop has finished, of the data lines
\* whose nearest preceding header line is at place h, in reading order.
ReadBlockPlaces(h) ==
    Ascending({n \in DataPlaces : n <= i /\ HeaderBefore(n) = h})

\* The entries the lines at the given places spell.
EntriesOfPlaces(places) ==
    [n \in 1..Len(places) |-> _parse_track_entry(lines[places[n]]).value]

\* After any prefix of the input every header line read has opened a track
\* of its own, the local `track` is the one opened last, and every track
\* holds exactly the entries of the data lines read between its header and
\* the next, in reading order.
EntriesBelongToNearestHeader ==
    /\ Len(tracks) = Cardinality({h \in HeaderPlaces : h <= i})
    /\ track = Len(tracks)
    /\ \A q \in 1..Len(tracks) :
           tracks[q].track_entries =
               EntriesOfPlaces(ReadBlockPlaces(HeaderPlace(q)))

\* A step of the loop leaves every track but the one opened last as it is,
\* and that one can only get one more entry at its end.
OnlyLastTrackGrows ==
    \A q \in 1..Len(tracks) :
        /\ Len(tracks') >= Len(tracks)
        /\ tracks'[q] # tracks[q] =>
               /\ q = Len(tracks)
               /\ Len(tracks') = Len(tracks)
               /\ \E entry \in {tracks'[q].track_entries[Len(tracks'[q].track_entries)]} :
                      tracks'[q] = [tracks[q] EXCEPT !.track_entries = Append(@, entry)]

\* C17: every data line is appended to the track opened by the nearest
\* preceding header line and to no other: only the track opened last can
\* grow, each track's entries are in the order their lines were read, and
\* two header lines, even of the same basin, number and year, open two
\* tracks with entry lists of their own.
C17_DataLinesJoinNearestHeader ==
    /\ [] EntriesBelongToNearestHeader
    /\ [][ OnlyLastTrackGrows ]_vars

\* C17's case: two headers of the same storm, then a data line: two tracks,
\* the first without an entry, the second with the line's entry.
C17_Witness ==
    /\ pc = "parse"
    /\ i = 3
    /\ Len(tracks) = 2
    /\ tracks[1].basin = tracks[2].basin
    /\ tracks[1].year = tracks[2].year
    /\ tracks[1].cyclone_no = tracks[2].cyclone_no
    /\ tracks[1].track_entries = << >>
    /\ Len(tracks[2].track_entries) = 1

\* A blank line as readlines gives it: the empty string, or whitespace and
\* the line terminator only.
IsBlank(line) == \A n \in 1..Len(line) : line[n] \in Whitespace

\* C18: a blank line is not treated as a data line: the parse does not end
\* with an exception at a blank line, and the loop passes it without adding
\* an entry to any track.
C18_BlankLineSkipped ==
    ~ ( /\ ParseRaised
        /\ IsBlank(lines[i + 1])
        /\ track # 0 )

----------------------------------------------------------------------------
(* Saving the report.                                                      *)

\* C15: save returns 200 when the target is an existing directory, having
\* written the data to HURDAT2_REPORT.json in it (and touched nothing
\* else), and returns 400 without writing or creating any file when the
\* target does not exist or is not a directory; ReportService.save returns
\* the repository's code unchanged.
C15_SaveReturns200Or400 ==
    [][ (pc # "saved" /\ pc' = "saved") =>
          /\ IF file_system[target].kind = "dir"
             THEN /\ return_code' = 200
                  /\ file_system'[report_path(target)] = File(report)
                  /\ \A path \in Paths \ {report_path(target)} :
                         file_system'[path] = file_system[path]
             ELSE /\ return_code' = 400
                  /\ file_system' = file_system
          /\ return_code' = JSONReportRepository_save(target, report, file_system).code
      ]_vars

\* C15's case: the generated report was saved over an old one in ./reports
\* with code 200.
C15_Witness ==
    /\ pc = "saved"
    /\ target = REPORT
    /\ return_code = 200
    /\ report # EMPTY_DICT
    /\ report["Storms making landfall:"] # << >>
    /\ file_system[report_path(REPORT)] = File(report)
    /\ file_system[report_path(CWD)] = File(OLD_REPORT)

----------------------------------------------------------------------------
(* The legacy parser's outer loop.                                         *)

\* C19: TextSource._parse_tracks terminates on every list of lines: every
\* iteration of the outer loop that does not end in an exception leaves
\* the index i greater than it found it.
C19_IndexIncreasesEveryIteration ==
    [][ (iterations' > iterations /\ pc' # "raised") => i' > i ]_vars

====
